---------------------------- MODULE Spec2Model ----------------------------
(***************************************************************************)
(* Model of scripts/feedback_digest.py: the bech32 key codec, the NIP-44   *)
(* envelope decryptor, the NIP-59 gift unwrapper, the relay aggregator and *)
(* the main() pipeline that strings them together.                         *)
(*                                                                         *)
(* Conventions                                                             *)
(*  - a Python str is a sequence of one-character strings, a bytes object  *)
(*    a sequence of integers 0..255;                                       *)
(*  - a function that may raise returns a record whose field err is ""     *)
(*    when it returned and the exception's name when it raised;            *)
(*  - a JSON value is a record [t, v]: t is "obj", "str", "num", "null" or *)
(*    "list", v the Python value (a function from keys for "obj").         *)
(***************************************************************************)
EXTENDS Integers, Sequences, FiniteSets, TLC

VARIABLES
    pc,             \* position of main(): see MainPositions
    exit_code,      \* status passed to sys.exit, -1 while running
    nsec,           \* os.getenv("SUPPORT_NSEC"), <<>> when unset
    sk_hex,         \* main's sk_hex once decoded
    net_used,       \* TRUE once any relay connection or send was attempted
    rpc,            \* per relay: position of fetch_events_from_relay
    elapsed,        \* per relay: time.time() - start, in seconds
    idle,           \* per relay: seconds spent in the current ws.recv()
    events,         \* per relay: the local list `events`
    rend,           \* per relay: how the query ended ("" while running)
    all_events,     \* fetch_gift_wraps' result
    feedback_items, \* fetch_feedback's result
    output,         \* what main() emits
    call,           \* frame of a directly called pure function: its arguments
    ret             \* ... and its result

vars == <<pc, exit_code, nsec, sk_hex, net_used, rpc, elapsed, idle, events,
          rend, all_events, feedback_items, output, call, ret>>

-----------------------------------------------------------------------------
(* Python string helpers                                                   *)

UpperCase ==
    <<"A","B","C","D","E","F","G","H","I","J","K","L","M","N","O","P","Q","R","S","T",
      "U","V","W","X","Y","Z">>

LowerCase ==
    <<"a","b","c","d","e","f","g","h","i","j","k","l","m","n","o","p","q","r","s","t",
      "u","v","w","x","y","z">>

Digits ==
    <<"0","1","2","3","4","5","6","7","8","9">>

IndexIn(seq, c) ==
    IF \E i \in 1..Len(seq) : seq[i] = c
    THEN CHOOSE i \in 1..Len(seq) : seq[i] = c /\ \A j \in 1..(i-1) : seq[j] # c
    ELSE 0

\* str.lower() / str.upper(), character by character
LowerChar(c) == IF IndexIn(UpperCase, c) > 0 THEN LowerCase[IndexIn(UpperCase, c)] ELSE c

UpperChar(c) == IF IndexIn(LowerCase, c) > 0 THEN UpperCase[IndexIn(LowerCase, c)] ELSE c

StrLower(s) == [i \in 1..Len(s) |-> LowerChar(s[i])]

StrUpper(s) == [i \in 1..Len(s) |-> UpperChar(s[i])]

\* str.rfind(c): 0-based index of the last occurrence, -1 when absent
RFind(s, c) ==
    IF \E i \in 1..Len(s) : s[i] = c
    THEN (CHOOSE i \in 1..Len(s) : s[i] = c /\ \A j \in (i+1)..Len(s) : s[j] # c) - 1
    ELSE -1

\* s[a:b] for 0 <= a, b (Python slice, 0-based, end exclusive, clamped)
Slice(s, a, b) ==
    LET hi == IF b > Len(s) THEN Len(s) ELSE b
    IN  IF a >= hi THEN <<>> ELSE SubSeq(s, a + 1, hi)

-----------------------------------------------------------------------------
(* Identity codec: bech32_decode, nsec_to_hex, npub_to_hex                 *)

BECH32_ALPHABET ==
    <<"q","p","z","r","y","9","x","8","g","f","2","t","v","d","w","0","s","3","j","n",
      "5","4","k","h","c","e","6","m","u","a","7","l">>

\* BECH32_ALPHABET.find(c)
AlphabetFind(c) == IndexIn(BECH32_ALPHABET, c) - 1

\* The 5-bit to 8-bit loop of bech32_decode, lines 58-66.  The loop shifts
\* each 5-bit value into acc and emits the top 8 pending bits whenever 8 or
\* more are pending, so byte k of the result is bits 8k..8k+7 of the
\* concatenated 5-bit values and trailing bits short of a byte are dropped.
\* StreamBit is bit j (0-based, most significant first) of that stream.
StreamBit(data, j) == (data[(j \div 5) + 1] \div (2 ^ (4 - (j % 5)))) % 2

StreamByte(data, k) ==
    128 * StreamBit(data, 8 * k)     + 64 * StreamBit(data, 8 * k + 1)
  + 32  * StreamBit(data, 8 * k + 2) + 16 * StreamBit(data, 8 * k + 3)
  + 8   * StreamBit(data, 8 * k + 4) + 4  * StreamBit(data, 8 * k + 5)
  + 2   * StreamBit(data, 8 * k + 6) +      StreamBit(data, 8 * k + 7)

ConvertBits(data) == [k \in 1..((5 * Len(data)) \div 8) |-> StreamByte(data, k - 1)]

ChecksumLen == 6

\* the mixed-case test of bech32_decode
MixedCase(bech) == bech # StrLower(bech) /\ bech # StrUpper(bech)

\* data[:-6]: the checksum characters are dropped, never verified
StripChecksum(data) == Slice(data, 0, Len(data) - ChecksumLen)

bech32_decode(bech0) ==
    IF MixedCase(bech0)
    THEN [err |-> "Mixed case", hrp |-> <<>>, data |-> <<>>]
    ELSE
    LET bech == StrLower(bech0)
        pos  == RFind(bech, "1")
    IN  IF pos < 1 \/ pos + 7 > Len(bech)
        THEN [err |-> "Invalid separator position", hrp |-> <<>>, data |-> <<>>]
        ELSE
        LET hrp  == Slice(bech, 0, pos)
            tail == Slice(bech, pos + 1, Len(bech))
            data == [i \in 1..Len(tail) |-> AlphabetFind(tail[i])]
        IN  IF \E i \in 1..Len(data) : data[i] = -1
            THEN [err |-> "Invalid character", hrp |-> <<>>, data |-> <<>>]
            ELSE [err |-> "", hrp |-> hrp,
                  data |-> ConvertBits(StripChecksum(data))]

\* bytes.hex(): two hexadecimal digits (as numbers 0..15) per byte
BytesHex(b) ==
    [i \in 1..(2 * Len(b)) |->
        IF i % 2 = 1 THEN b[(i + 1) \div 2] \div 16 ELSE b[i \div 2] % 16]

\* bytes.fromhex(): the inverse
BytesFromHex(h) == [i \in 1..(Len(h) \div 2) |-> h[2 * i - 1] * 16 + h[2 * i]]

KeyToHex(bech, tag) ==
    LET d == bech32_decode(bech)
    IN  IF d.err # "" THEN [err |-> d.err, hex |-> <<>>]
        ELSE IF d.hrp # tag THEN [err |-> "Expected tag", hex |-> <<>>]
        ELSE [err |-> "", hex |-> BytesHex(d.data)]

nsec_to_hex(s) == KeyToHex(s, <<"n","s","e","c">>)

npub_to_hex(s) == KeyToHex(s, <<"n","p","u","b">>)

SUPPORT_NPUB ==
    <<"n","p","u","b","1","x","g","8","n","c","3","2","s","w","6","u","3","m","3","3",
      "7","w","z","h","k","8","g","s","3","n","q","m","h","7","3","r","8","6","z","6",
      "a","9","3","s","3","h","e","t","c","a","4","j","v","k","t","l","s","6","8","q",
      "y","u","e">>

-----------------------------------------------------------------------------
(* JSON values and Python dicts                                            *)

\* A Python str is carried in one of three forms, told apart by the tag:
\* "str" (v: a string), "text" (v: a sequence of bytes that the program goes on
\* to parse) and "b64" (v: a NIP-44 blob, see below).
JStr(s)  == [t |-> "str",  v |-> s]

JText(b) == [t |-> "text", v |-> b]

JB64(b)  == [t |-> "b64",  v |-> b]

JNum(n)  == [t |-> "num",  v |-> n]

JNull    == [t |-> "null", v |-> 0]

JList(n) == [t |-> "list", v |-> n]

JObj(f)  == [t |-> "obj",  v |-> f]

EmptyDict == [k \in {} |-> JNull]

\* d[k] = v
DictSet(d, k, val) == [kk \in (DOMAIN d) \cup {k} |-> IF kk = k THEN val ELSE d[kk]]

\* d.get(k, default)
DictGet(d, k, default) == IF k \in DOMAIN d THEN d[k] ELSE default

IsStrLike(j) == j.t \in {"str", "text", "b64"}

-----------------------------------------------------------------------------
(* Envelope decryptor: get_conversation_key, nip44_decrypt                 *)

\* Public keys are named; "zz" stands for a string that is no curve point.
ValidPubkeys == {"pk_eph", "pk_eph2", "pk_alice", "pk_mallory"}

KeyBytes == 32

\* ECDH, symbolically: the shared secret of a secret key and a peer's public
\* key is the pair of them.  PrivateKey() and PublicKey() raise on malformed
\* input.
get_conversation_key(sk, pk) ==
    IF Len(BytesFromHex(sk)) # KeyBytes \/ Len(sk) # 2 * KeyBytes
    THEN [err |-> "invalid secret key", key |-> <<>>]
    ELSE IF pk.t # "str" \/ pk.v \notin ValidPubkeys
    THEN [err |-> "invalid public key", key |-> <<>>]
    ELSE [err |-> "", key |-> <<sk, pk.v>>]

\* A blob stands for the base64 text of version || nonce || ciphertext || tag:
\*   b64     whether the text is valid base64
\*   version byte 0 of the decoded bytes, -1 when there are none
\*   key     the conversation key the sender encrypted under
\*   intact  FALSE when nonce, ciphertext or tag were altered afterwards
\*   padded  the plaintext block the sender encrypted (length prefix included)
Blob(version, key, intact, padded) ==
    [b64 |-> TRUE, version |-> version, key |-> key, intact |-> intact,
     padded |-> padded]

SupportedVersion == 2

\* int.from_bytes(b[:2], 'big')
LengthPrefix(padded) ==
    IF Len(padded) = 0 THEN 0
    ELSE IF Len(padded) = 1 THEN padded[1]
    ELSE padded[1] * 256 + padded[2]

\* lines 213-215: the length prefix selects the payload; a slice never raises
Unpad(padded) == Slice(padded, 2, 2 + LengthPrefix(padded))

\* bytes.decode('utf-8') on the model's bytes: every byte below 128 is a
\* character of its own, and 255, the only other byte the model draws, never
\* occurs in UTF-8.
Utf8Valid(b) == \A i \in 1..Len(b) : b[i] < 128

nip44_decrypt(content, ck) ==
    IF content.t # "b64" \/ ~content.v.b64
    THEN [err |-> "b64decode", text |-> <<>>]
    ELSE LET blob == content.v
    IN  IF blob.version = -1 THEN [err |-> "IndexError", text |-> <<>>]
        ELSE IF blob.version # SupportedVersion
        THEN [err |-> "Unsupported NIP-44 version", text |-> <<>>]
        ELSE IF ~(blob.key = ck /\ blob.intact)
        THEN [err |-> "InvalidTag", text |-> <<>>]
        ELSE IF ~Utf8Valid(Unpad(blob.padded))
        THEN [err |-> "UnicodeDecodeError", text |-> <<>>]
        ELSE [err |-> "", text |-> Unpad(blob.padded)]

-----------------------------------------------------------------------------
(* Gift unwrapper: decrypt_gift_wrap                                       *)

GoodNsec ==
    <<"n","s","e","c","1","q","u","r","s","w","p","c","8","q","u","r","s","w","p","c",
      "8","q","u","r","s","w","p","c","8","q","u","r","s","w","p","c","8","q","u","r",
      "s","w","p","c","8","q","u","r","s","w","p","c","8","q","u","r","s","l","6","e",
      "d","e","t">>

\* the recipient's secret key in hexadecimal digits: the 32 bytes 07 that
\* GoodNsec encodes
RecipientSk == [i \in 1..(2 * KeyBytes) |-> IF i % 2 = 1 THEN 0 ELSE 7]

\* What the sender does before encrypting: 2-byte big-endian length, the text,
\* zero padding.
Pad(text) == <<Len(text) \div 256, Len(text) % 256>> \o text \o <<0>>

\* JSON documents are written as single bytes of text, looked up in three
\* books; every other text (empty, longer, an unlisted byte) is not JSON.
\* Payloads: what a rumor's content parses to.
PayloadDocs == <<
    JObj("type" :> JStr("bug") @@ "message" :> JStr("hello")),
    JObj("type" :> JStr("bug") @@ "message" :> JStr("hi")
         @@ "_sender_pubkey" :> JStr("pk_mallory") @@ "_received_at" :> JNum(999)),
    JObj("type" :> JStr("idea") @@ "message" :> JNull),
    JList(2),
    JObj(EmptyDict),
    JObj("type" :> JStr("bug") @@ "message" :> JNum(5)) >>

\* the text "{}"
EmptyObjText == <<5>>

FreeText == <<72, 105>>

Rumor(content) == JObj("kind" :> JNum(14) @@ "content" :> content)

RumorDocs == <<
    Rumor(JText(<<1>>)),
    Rumor(JText(<<2>>)),
    Rumor(JText(<<3>>)),
    Rumor(JText(<<4>>)),
    Rumor(JText(FreeText)),
    JObj("kind" :> JNum(14)),
    JList(0),
    Rumor(JNum(7)),
    Rumor(JText(<<6>>)) >>

RumorBase == Len(PayloadDocs)

SealedTo(sk, pk, text) == JB64(Blob(SupportedVersion, <<sk, pk>>, TRUE, Pad(text)))

Seal(pk, content) == JObj("kind" :> JNum(13) @@ "pubkey" :> pk @@ "content" :> content)

\* seals 1..9 carry rumors 1..9 from pk_alice; the rest are malformed
SealDocs ==
    [i \in 1..Len(RumorDocs) |->
        Seal(JStr("pk_alice"), SealedTo(RecipientSk, "pk_alice", <<RumorBase + i>>))]
    \o <<
    JObj("kind" :> JNum(13)
         @@ "content" :> SealedTo(RecipientSk, "pk_alice", <<RumorBase + 1>>)),
    Seal(JStr("zz"), SealedTo(RecipientSk, "pk_alice", <<RumorBase + 1>>)),
    Seal(JStr("pk_alice"), SealedTo(RecipientSk, "pk_eph", <<RumorBase + 1>>)),
    Seal(JStr("pk_alice"),
         JB64(Blob(1, <<RecipientSk, "pk_alice">>, TRUE, Pad(<<RumorBase + 1>>)))),
    JList(0),
    Seal(JStr("pk_alice"), SealedTo(RecipientSk, "pk_alice", <<123>>)),
    Seal(JStr("pk_alice"), JNum(0)),
    Seal(JStr("pk_mallory"), SealedTo(RecipientSk, "pk_mallory", <<RumorBase + 2>>)) >>

SealBase == RumorBase + Len(RumorDocs)

InBook(text, base, book) == Len(text) = 1 /\ (text[1] - base) \in 1..Len(book)

\* json.loads(text): ok is FALSE for json.JSONDecodeError
json_loads(text) ==
    IF InBook(text, SealBase, SealDocs)
    THEN [ok |-> TRUE, doc |-> SealDocs[text[1] - SealBase]]
    ELSE IF InBook(text, RumorBase, RumorDocs)
    THEN [ok |-> TRUE, doc |-> RumorDocs[text[1] - RumorBase]]
    ELSE IF InBook(text, 0, PayloadDocs)
    THEN [ok |-> TRUE, doc |-> PayloadDocs[text[1]]]
    ELSE [ok |-> FALSE, doc |-> JNull]

None == [err |-> "None", feedback |-> EmptyDict]

\* a faulty variant: fields the payload already carries are kept
InjectMetaKeepExisting(feedback, seal, event) ==
    LET a == IF "_sender_pubkey" \in DOMAIN feedback THEN feedback
             ELSE DictSet(feedback, "_sender_pubkey", seal["pubkey"])
    IN  IF "_received_at" \in DOMAIN a THEN a
        ELSE DictSet(a, "_received_at", DictGet(event, "created_at", JNum(0)))

\* lines 253-254 and 260-261: the two injected fields are written last
InjectMeta(feedback, seal, event) ==
    DictSet(DictSet(feedback, "_sender_pubkey", seal["pubkey"]),
            "_received_at", DictGet(event, "created_at", JNum(0)))

\* Step 3, lines 251-262
ParseFeedback(rumor, seal, event) ==
    LET content == DictGet(rumor, "content", JText(EmptyObjText))
    IN  IF ~IsStrLike(content) THEN None                 \* json.loads: TypeError
        ELSE LET p == IF content.t = "text" THEN json_loads(content.v)
                      ELSE [ok |-> FALSE, doc |-> JNull]
        IN  IF ~p.ok
            THEN [err |-> "",
                  feedback |-> InjectMeta("type" :> JStr("unknown")
                                          @@ "message" :> DictGet(rumor, "content", JStr("")),
                                          seal, event)]
            ELSE IF p.doc.t # "obj" THEN None            \* item assignment: TypeError
            ELSE [err |-> "", feedback |-> InjectMeta(p.doc.v, seal, event)]

\* Step 2, lines 245-248
UnwrapSeal(seal, event, sk) ==
    IF seal.t # "obj" \/ "pubkey" \notin DOMAIN seal.v THEN None
    ELSE LET ck2 == get_conversation_key(sk, seal.v["pubkey"])
    IN  IF ck2.err # "" \/ "content" \notin DOMAIN seal.v THEN None
        ELSE LET r == nip44_decrypt(seal.v["content"], ck2.key)
        IN  IF r.err # "" \/ ~json_loads(r.text).ok THEN None
            ELSE LET rumor == json_loads(r.text).doc
            IN  IF rumor.t # "obj" THEN None             \* rumor.get: AttributeError
                ELSE ParseFeedback(rumor.v, seal.v, event)

\* lines 237-266; err # "" stands for the None of the except branch
decrypt_gift_wrap(ev, sk) ==
    IF ev.t # "obj" \/ "pubkey" \notin DOMAIN ev.v THEN None
    ELSE LET ck == get_conversation_key(sk, ev.v["pubkey"])
    IN  IF ck.err # "" \/ "content" \notin DOMAIN ev.v THEN None
        ELSE LET r == nip44_decrypt(ev.v["content"], ck.key)
        IN  IF r.err # "" \/ ~json_loads(r.text).ok THEN None
            ELSE UnwrapSeal(json_loads(r.text).doc, ev.v, sk)

-----------------------------------------------------------------------------
(* Events as relays serve them                                             *)

Event(id, pk, content, created_at) ==
    JObj("id" :> JStr(id) @@ "kind" :> JNum(1059) @@ "pubkey" :> JStr(pk)
         @@ "content" :> content @@ "created_at" :> JNum(created_at))

\* a well-formed gift wrap around seal number i, from the ephemeral key pk
Wrap(id, pk, i, created_at) ==
    Event(id, pk, SealedTo(RecipientSk, pk, <<SealBase + i>>), created_at)

Without(f, k) == [kk \in (DOMAIN f) \ {k} |-> f[kk]]

NumSeals == Len(SealDocs)

\* One wrap per seal of the book, then wraps that are themselves malformed.
\* Every event has its own id.
WireEvents ==
    [i \in 1..NumSeals |-> Wrap(<<"seal", i>>, "pk_eph", i, 100 + i)]
    \o <<
    Event(<<"w", 1>>, "pk_eph",
          JB64(Blob(1, <<RecipientSk, "pk_eph">>, TRUE, Pad(<<SealBase + 1>>))), 201),
    Event(<<"w", 2>>, "pk_eph",
          JB64(Blob(SupportedVersion, <<RecipientSk, "pk_eph">>, FALSE,
                    Pad(<<SealBase + 1>>))), 202),
    Event(<<"w", 3>>, "pk_eph2", SealedTo(RecipientSk, "pk_eph", <<SealBase + 1>>), 203),
    Event(<<"w", 4>>, "pk_eph", SealedTo(RecipientSk, "pk_eph", <<123, 34>>), 204),
    JObj(Without(Wrap(<<"w", 5>>, "pk_eph", 1, 205).v, "pubkey")),
    JObj(Without(Wrap(<<"w", 6>>, "pk_eph", 1, 206).v, "content")),
    JObj(Without(Wrap(<<"w", 7>>, "pk_eph2", 1, 207).v, "created_at")),
    Event(<<"w", 8>>, "zz", SealedTo(RecipientSk, "pk_eph", <<SealBase + 1>>), 208),
    Event(<<"w", 9>>, "pk_eph",
          JB64(Blob(SupportedVersion, <<RecipientSk, "pk_eph">>, TRUE,
                    <<0, 3, SealBase + 1>>)), 209),
    Event(<<"w", 10>>, "pk_eph",
          JB64(Blob(SupportedVersion, <<RecipientSk, "pk_eph">>, TRUE,
                    <<0, 1, SealBase + 1, 255>>)), 210),
    Event(<<"w", 11>>, "pk_eph",
          JB64(Blob(SupportedVersion, <<RecipientSk, "pk_eph">>, TRUE,
                    <<0, 2, SealBase + 1, 255>>)), 211) >>

-----------------------------------------------------------------------------
(* Relay aggregator: fetch_events_from_relay, fetch_gift_wraps             *)

NumRelays == 2

Relays == 1..NumRelays

MaxEvents == 2

\* timeout: int = 10, and the timeout=2 of asyncio.wait_for, in seconds
Timeout == 10

RecvTimeout == 2

\* resolution of the model's clock, in seconds
TickSeconds == 2

\* what a relay may put into an EVENT message: a gift wrap that unwraps, one
\* that was tampered with, and a payload that is no JSON object
RelayPool == <<WireEvents[1], WireEvents[NumSeals + 2], JStr("junk")>>

SubscriptionId == "feedback_now"

\* A message is the text of one websocket frame: json says what json.loads
\* makes of it ("invalid": JSONDecodeError, "number", "string", "list"); for a
\* list, n is its length and d0, d1, d2 its first elements.
ListMsg(n, d0, d1, d2) == [json |-> "list", n |-> n, d0 |-> d0, d1 |-> d1, d2 |-> d2]

ControlMessages == <<
    ListMsg(2, "EOSE", SubscriptionId, JNull),
    ListMsg(2, "NOTICE", "rate-limited", JNull),
    ListMsg(0, "", "", JNull),
    ListMsg(1, "EVENT", "", JNull),
    ListMsg(2, "EVENT", SubscriptionId, JNull),
    [json |-> "invalid", n |-> 0, d0 |-> "", d1 |-> "", d2 |-> JNull],
    [json |-> "number",  n |-> 0, d0 |-> "", d1 |-> "", d2 |-> JNull],
    [json |-> "string",  n |-> 0, d0 |-> "", d1 |-> "", d2 |-> JNull] >>

EventMessages ==
    [i \in 1..Len(RelayPool) |-> ListMsg(3, "EVENT", SubscriptionId, RelayPool[i])]
    \o <<ListMsg(3, "EVENT", "someone_else", RelayPool[1])>>

Messages == ControlMessages \o EventMessages

\* lines 127-132: what one received frame does to the loop.
\* go is "continue", "break" or "raise".
OnMessage(msg, evs) ==
    IF msg.json = "invalid" \/ msg.json = "number" THEN [go |-> "raise", got |-> evs]
    ELSE IF msg.json = "string" THEN [go |-> "continue", got |-> evs]
    ELSE IF msg.n = 0 THEN [go |-> "raise", got |-> evs]
    ELSE IF msg.d0 = "EVENT" /\ msg.n < 2 THEN [go |-> "raise", got |-> evs]
    ELSE IF msg.d0 = "EVENT" /\ msg.d1 = SubscriptionId
         THEN IF msg.n < 3 THEN [go |-> "raise", got |-> evs]
              ELSE [go |-> "continue", got |-> Append(evs, msg.d2)]
    ELSE IF msg.d0 = "EOSE" THEN [go |-> "break", got |-> evs]
    ELSE [go |-> "continue", got |-> evs]

\* a faulty variant: the except branch drops what was received
OnExceptionDiscard(evs) == <<>>

\* line 139-142: the except branch prints and falls through to `return events`
OnException(evs) == evs

\* a faulty variant: while True
LoopGuardUnbounded(r) == TRUE

\* line 124: while time.time() - start < timeout
LoopGuard(r) == elapsed[r] < Timeout

\* event.get("id", ""): AttributeError unless the event is a dict
HasGet(e) == e.t = "obj"

EventId(e) == DictGet(e.v, "id", JStr(<<>>))

\* a faulty variant: no seen_ids test
DedupOff(evs, seen_ids, acc) == acc \o evs

\* lines 162-167: first occurrence of every id, in order of relay then arrival
RECURSIVE Dedup(_, _, _)
Dedup(evs, seen_ids, acc) ==
    IF evs = <<>> THEN acc
    ELSE IF EventId(Head(evs)) \notin seen_ids
         THEN Dedup(Tail(evs), seen_ids \cup {EventId(Head(evs))}, Append(acc, Head(evs)))
         ELSE Dedup(Tail(evs), seen_ids, acc)

RECURSIVE Flatten(_, _)
Flatten(results, r) ==
    IF r > NumRelays THEN <<>> ELSE results[r] \o Flatten(results, r + 1)

\* lines 160-173 after the gather: err is "AttributeError" when the loop raises
MergeResults(results) ==
    LET flat == Flatten(results, 1)
    IN  IF \E i \in 1..Len(flat) : ~HasGet(flat[i])
        THEN [err |-> "AttributeError", all_events |-> <<>>]
        ELSE [err |-> "", all_events |-> Dedup(flat, {}, <<>>)]

-----------------------------------------------------------------------------
(* fetch_feedback's decrypt loop and generate_digest                       *)

\* feedback.get('message', '')[:40]: TypeError unless the value can be sliced
PreviewRaises(feedback) ==
    ~(DictGet(feedback, "message", JStr("")).t \in {"str", "text", "b64", "list"})

\* lines 285-296: raised is TRUE when the loop raises out of fetch_feedback
RECURSIVE DecryptLoop(_, _, _)
DecryptLoop(evs, sk, items) ==
    IF evs = <<>> THEN [raised |-> FALSE, items |-> items]
    ELSE LET f == decrypt_gift_wrap(Head(evs), sk)
         IN  IF f.err # "" \/ f.feedback = EmptyDict
             THEN DecryptLoop(Tail(evs), sk, items)
             ELSE IF PreviewRaises(f.feedback)
             THEN [raised |-> TRUE, items |-> Append(items, f.feedback)]
             ELSE DecryptLoop(Tail(evs), sk, Append(items, f.feedback))

\* lines 299-343.  has_sdk is HAS_ANTHROPIC, has_key whether ANTHROPIC_API_KEY is
\* set, call_ok whether client.messages.create returns.  kind names the text
\* returned; "raw_fallback" is the one that embeds json.dumps(feedback_items).
generate_digest(items, has_sdk, has_key, call_ok) ==
    IF items = <<>> THEN [raised |-> FALSE, kind |-> "no_feedback"]
    ELSE IF ~has_sdk THEN [raised |-> FALSE, kind |-> "raw_fallback"]
    ELSE IF ~has_key THEN [raised |-> FALSE, kind |-> "raw_fallback"]
    ELSE IF call_ok THEN [raised |-> FALSE, kind |-> "ai_digest"]
    ELSE [raised |-> TRUE, kind |-> "traceback"]

\* how the summarization collaborator fared in a call of generate_digest
Collaborator(has_sdk, has_key, call_ok) ==
    IF ~has_sdk \/ ~has_key THEN "unavailable"
    ELSE IF call_ok THEN "ok" ELSE "failed"

NoOutput == [kind |-> "none", items |-> <<>>, collaborator |-> "unused"]

-----------------------------------------------------------------------------
(* main() and the tasks it runs                                            *)

IdleRelays == [r \in Relays |-> "idle"]

\* a faulty variant: the ValueError of nsec_to_hex is swallowed
ConfigErrorUndecoded(has_crypto, key) == ~has_crypto \/ key = <<>>

\* lines 371-387: the three ways main() ends in sys.exit(1) before fetching
ConfigError(has_crypto, key) ==
    ~has_crypto \/ key = <<>> \/ nsec_to_hex(key).err # ""

\* lines 370-387: dependency check, SUPPORT_NSEC, nsec_to_hex
MainCheckConfig ==
    /\ pc = "start"
    /\ \E has_crypto \in BOOLEAN :
         IF ConfigError(has_crypto, nsec)
         THEN /\ pc' = "exited"
              /\ exit_code' = 1
              /\ sk_hex' = sk_hex
         ELSE /\ pc' = "fetch"
              /\ exit_code' = exit_code
              /\ sk_hex' = nsec_to_hex(nsec).hex
    /\ UNCHANGED <<nsec, net_used, rpc, elapsed, idle, events, rend, all_events,
                   feedback_items, output, call, ret>>

\* lines 269-278 and 145-159: fetch_feedback builds the filter and
\* fetch_gift_wraps creates one task per relay
FetchFeedbackStart ==
    /\ pc = "fetch"
    /\ IF npub_to_hex(SUPPORT_NPUB).err # ""
       THEN pc' = "crashed_fetch" /\ exit_code' = 1 /\ rpc' = rpc
       ELSE pc' = "gather" /\ exit_code' = exit_code
            /\ rpc' = [r \in Relays |-> "connect"]
    /\ UNCHANGED <<nsec, sk_hex, net_used, elapsed, idle, events, rend, all_events,
                   feedback_items, output, call, ret>>

RelayUnchanged == UNCHANGED <<pc, exit_code, nsec, sk_hex, all_events, feedback_items,
                              output, call, ret>>

\* the except branch of fetch_events_from_relay, lines 139-142
Fail(r) ==
    /\ rpc' = [rpc EXCEPT ![r] = "done"]
    /\ rend' = [rend EXCEPT ![r] = "error"]
    /\ events' = [events EXCEPT ![r] = OnException(events[r])]
    /\ elapsed' = [elapsed EXCEPT ![r] = 0]
    /\ idle' = [idle EXCEPT ![r] = 0]

\* line 117: websockets.connect succeeds or raises
Connect(r) ==
    /\ pc = "gather" /\ rpc[r] = "connect"
    /\ net_used' = TRUE
    /\ \/ rpc' = [rpc EXCEPT ![r] = "req"] /\ UNCHANGED <<rend, events, elapsed, idle>>
       \/ Fail(r)
    /\ RelayUnchanged

\* lines 119-123: send REQ, start the clock
SendReq(r) ==
    /\ rpc[r] = "req"
    /\ \/ /\ rpc' = [rpc EXCEPT ![r] = "loop"]
          /\ elapsed' = [elapsed EXCEPT ![r] = 0]
          /\ UNCHANGED <<rend, events, idle>>
       \/ Fail(r)
    /\ UNCHANGED net_used
    /\ RelayUnchanged

\* line 124: the loop condition; line 126 starts a wait of RecvTimeout seconds
LoopHead(r) ==
    /\ rpc[r] = "loop"
    /\ IF LoopGuard(r)
       THEN /\ rpc' = [rpc EXCEPT ![r] = "recv"]
            /\ idle' = [idle EXCEPT ![r] = 0]
            /\ rend' = rend
       ELSE /\ rpc' = [rpc EXCEPT ![r] = "close"]
            /\ idle' = idle
            /\ rend' = [rend EXCEPT ![r] = "timeout"]
    /\ UNCHANGED <<net_used, elapsed, events>>
    /\ RelayUnchanged

\* lines 126-132: a frame arrives before the wait expires
Recv(r) ==
    /\ rpc[r] = "recv" /\ idle[r] < RecvTimeout
    /\ \E i \in 1..Len(Messages) :
         LET h == OnMessage(Messages[i], events[r])
         IN  /\ Len(h.got) <= MaxEvents
             /\ IF h.go = "raise" THEN Fail(r)
                ELSE /\ events' = [events EXCEPT ![r] = h.got]
                     /\ rpc' = [rpc EXCEPT ![r] = IF h.go = "break" THEN "close" ELSE "loop"]
                     /\ rend' = [rend EXCEPT ![r] = IF h.go = "break" THEN "eose" ELSE ""]
                     /\ UNCHANGED <<elapsed, idle>>
    /\ UNCHANGED net_used
    /\ RelayUnchanged

\* line 126: ws.recv() raises (the connection dropped)
RecvError(r) ==
    /\ rpc[r] = "recv" /\ idle[r] < RecvTimeout
    /\ Fail(r)
    /\ UNCHANGED net_used
    /\ RelayUnchanged

\* lines 133-134: asyncio.TimeoutError ends the loop
RecvTimedOut(r) ==
    /\ rpc[r] = "recv" /\ idle[r] >= RecvTimeout
    /\ rpc' = [rpc EXCEPT ![r] = "close"]
    /\ rend' = [rend EXCEPT ![r] = "timeout"]
    /\ UNCHANGED <<net_used, elapsed, idle, events>>
    /\ RelayUnchanged

\* line 137: send CLOSE; leaving the `async with` closes the socket
SendClose(r) ==
    /\ rpc[r] = "close"
    /\ \/ /\ rpc' = [rpc EXCEPT ![r] = "done"]
          /\ elapsed' = [elapsed EXCEPT ![r] = 0]
          /\ idle' = [idle EXCEPT ![r] = 0]
          /\ UNCHANGED <<rend, events>>
       \/ Fail(r)
    /\ UNCHANGED net_used
    /\ RelayUnchanged

\* Time passes while a query is in its receive loop.  A pending wait_for
\* expires no later than RecvTimeout, and time past Timeout changes nothing the
\* loop reads; elapsed and idle are locals of the coroutine, gone once it
\* returns (Fail and SendClose reset them).
Tick(r) ==
    /\ \/ rpc[r] = "loop" /\ elapsed[r] < Timeout
       \/ rpc[r] = "recv" /\ idle[r] < RecvTimeout
    /\ elapsed' = [elapsed EXCEPT ![r] = IF elapsed[r] < Timeout
                                         THEN elapsed[r] + TickSeconds
                                         ELSE elapsed[r]]
    /\ idle' = [idle EXCEPT ![r] = IF rpc[r] = "recv" THEN idle[r] + TickSeconds
                                   ELSE idle[r]]
    /\ UNCHANGED <<net_used, rpc, events, rend>>
    /\ RelayUnchanged

\* lines 160-173: gather returns once every task has, then the merge
GatherReturn ==
    /\ pc = "gather"
    /\ \A r \in Relays : rpc[r] = "done"
    /\ LET m == MergeResults(events)
       IN  IF m.err # ""
           THEN pc' = "crashed_gather" /\ exit_code' = 1 /\ all_events' = all_events
           ELSE pc' = "decrypt" /\ exit_code' = exit_code /\ all_events' = m.all_events
    /\ UNCHANGED <<nsec, sk_hex, net_used, rpc, elapsed, idle, events, rend,
                   feedback_items, output, call, ret>>

\* lines 279-296
Decrypt ==
    /\ pc = "decrypt"
    /\ LET d == DecryptLoop(all_events, sk_hex, <<>>)
       IN  IF d.raised
           THEN pc' = "crashed_decrypt" /\ exit_code' = 1 /\ feedback_items' = feedback_items
           ELSE pc' = "digest" /\ exit_code' = exit_code /\ feedback_items' = d.items
    /\ UNCHANGED <<nsec, sk_hex, net_used, rpc, elapsed, idle, events, rend,
                   all_events, output, call, ret>>

\* lines 392-396
MainDigest ==
    /\ pc = "digest"
    /\ \E raw, has_sdk, has_key, call_ok \in BOOLEAN :
         IF raw
         THEN /\ output' = [kind |-> "raw_json", items |-> feedback_items,
                            collaborator |-> "unused"]
              /\ pc' = "emit" /\ exit_code' = exit_code
         ELSE LET g == generate_digest(feedback_items, has_sdk, has_key, call_ok)
              IN  /\ output' = [kind |-> g.kind, items |-> feedback_items,
                                collaborator |->
                                    IF feedback_items = <<>> THEN "unused"
                                    ELSE Collaborator(has_sdk, has_key, call_ok)]
                  /\ IF g.raised THEN pc' = "crashed_digest" /\ exit_code' = 1
                     ELSE pc' = "emit" /\ exit_code' = exit_code
    /\ UNCHANGED <<nsec, sk_hex, net_used, rpc, elapsed, idle, events, rend,
                   all_events, feedback_items, call, ret>>

\* lines 398-407
MainEmit ==
    /\ pc = "emit"
    /\ pc' = "done"
    /\ exit_code' = 0
    /\ UNCHANGED <<nsec, sk_hex, net_used, rpc, elapsed, idle, events, rend,
                   all_events, feedback_items, output, call, ret>>

RelayStep(r) ==
    \/ Connect(r)
    \/ SendReq(r)
    \/ LoopHead(r)
    \/ Recv(r)
    \/ RecvError(r)
    \/ RecvTimedOut(r)
    \/ SendClose(r)

Next ==
    \/ MainCheckConfig
    \/ FetchFeedbackStart
    \/ \E r \in Relays : RelayStep(r)
    \/ \E r \in Relays : Tick(r)
    \/ GatherReturn
    \/ Decrypt
    \/ MainDigest
    \/ MainEmit

\* SUPPORT_NSEC as the operator may have set it: unset, a valid key, the
\* public key by mistake, a key with one letter upper-cased, a key with a
\* character outside the alphabet
NsecSettings == <<
    <<>>,
    GoodNsec,
    SUPPORT_NPUB,
    [GoodNsec EXCEPT ![7] = "U"],
    [GoodNsec EXCEPT ![9] = "b"],
    SubSeq(GoodNsec, 1, 8) >>

NoCall == [fn |-> "none"]

InitRelays ==
    /\ rpc = IdleRelays
    /\ elapsed = [r \in Relays |-> 0]
    /\ idle = [r \in Relays |-> 0]
    /\ events = [r \in Relays |-> <<>>]
    /\ rend = [r \in Relays |-> ""]

Init ==
    /\ pc = "start"
    /\ exit_code = -1
    /\ \E i \in 1..Len(NsecSettings) : nsec = NsecSettings[i]
    /\ sk_hex = <<>>
    /\ net_used = FALSE
    /\ InitRelays
    /\ all_events = <<>>
    /\ feedback_items = <<>>
    /\ output = NoOutput
    /\ call = NoCall
    /\ ret = NoCall

Spec == Init /\ [][Next]_vars

-----------------------------------------------------------------------------
(* The gather alone: fetch_gift_wraps from asyncio.gather on, under the     *)
(* event loop's scheduling.                                                 *)

GatherInit ==
    /\ pc = "gather"
    /\ exit_code = -1
    /\ nsec = GoodNsec
    /\ sk_hex = RecipientSk
    /\ net_used = FALSE
    /\ rpc = [r \in Relays |-> "connect"]
    /\ elapsed = [r \in Relays |-> 0]
    /\ idle = [r \in Relays |-> 0]
    /\ events = [r \in Relays |-> <<>>]
    /\ rend = [r \in Relays |-> ""]
    /\ all_events = <<>>
    /\ feedback_items = <<>>
    /\ output = NoOutput
    /\ call = NoCall
    /\ ret = NoCall

GatherNext ==
    \/ \E r \in Relays : RelayStep(r)
    \/ \E r \in Relays : Tick(r)
    \/ GatherReturn

\* the steps of a query that wait for nothing the relay sends
Progress(r) ==
    Connect(r) \/ SendReq(r) \/ LoopHead(r) \/ RecvTimedOut(r) \/ SendClose(r)

\* The event loop runs every task that can run, every awaited send or connect
\* completes or raises, and time passes.  Nothing obliges a relay to send.
Fairness ==
    /\ WF_vars(GatherReturn)
    /\ \A r \in Relays : WF_vars(Progress(r)) /\ WF_vars(Tick(r))

FairSpec == GatherInit /\ [][GatherNext]_vars /\ Fairness

-----------------------------------------------------------------------------
(* The pipeline from a fetched batch on: fetch_feedback's loop over any     *)
(* batch fetch_gift_wraps can return (JSON objects with distinct ids).      *)

MaxBatch == 2

Batches ==
    {b \in UNION {[1..n -> 1..Len(WireEvents)] : n \in 0..MaxBatch} :
        \A i, j \in DOMAIN b : i # j => b[i] # b[j]}

TailInit ==
    /\ pc = "decrypt"
    /\ exit_code = -1
    /\ nsec = GoodNsec
    /\ sk_hex = RecipientSk
    /\ net_used = TRUE
    /\ rpc = [r \in Relays |-> "done"]
    /\ elapsed = [r \in Relays |-> 0]
    /\ idle = [r \in Relays |-> 0]
    /\ events = [r \in Relays |-> <<>>]
    /\ rend = [r \in Relays |-> "eose"]
    /\ \E b \in Batches : all_events = [i \in DOMAIN b |-> WireEvents[b[i]]]
    /\ feedback_items = <<>>
    /\ output = NoOutput
    /\ call = NoCall
    /\ ret = NoCall

TailNext ==
    \/ Decrypt
    \/ MainDigest
    \/ MainEmit

TailSpec == TailInit /\ [][TailNext]_vars

-----------------------------------------------------------------------------
(* Direct calls of the pure functions                                      *)

PureInit ==
    /\ pc = "call"
    /\ exit_code = -1
    /\ nsec = <<>>
    /\ sk_hex = <<>>
    /\ net_used = FALSE
    /\ InitRelays
    /\ all_events = <<>>
    /\ feedback_items = <<>>
    /\ output = NoOutput
    /\ ret = NoCall

\* Encoded keys: the two valid ones, each with one character replaced, and
\* each cut short.
MutationChars == <<"q", "Q", "1", "b", "7">>

Mutations(key) ==
    {[key EXCEPT ![i] = MutationChars[c]] :
        i \in 1..Len(key), c \in 1..Len(MutationChars)}
    \cup {SubSeq(key, 1, n) : n \in 0..Len(key)}

CodecInputs == Mutations(GoodNsec) \cup Mutations(SUPPORT_NPUB)

CodecInit ==
    /\ PureInit
    /\ \E fn \in {"nsec_to_hex", "npub_to_hex"}, bech \in CodecInputs :
         call = [fn |-> fn, bech |-> bech]

CallNsecToHex ==
    /\ pc = "call" /\ call.fn = "nsec_to_hex"
    /\ ret' = nsec_to_hex(call.bech)
    /\ pc' = "returned"
    /\ UNCHANGED <<exit_code, nsec, sk_hex, net_used, rpc, elapsed, idle, events, rend,
                   all_events, feedback_items, output, call>>

CallNpubToHex ==
    /\ pc = "call" /\ call.fn = "npub_to_hex"
    /\ ret' = npub_to_hex(call.bech)
    /\ pc' = "returned"
    /\ UNCHANGED <<exit_code, nsec, sk_hex, net_used, rpc, elapsed, idle, events, rend,
                   all_events, feedback_items, output, call>>

CodecNext ==
    \/ CallNsecToHex
    \/ CallNpubToHex

CodecSpec == CodecInit /\ [][CodecNext]_vars

\* Blobs: every version, key, state of the tag and plaintext block up to
\* MaxPadded bytes over NipBytes.
MaxPadded == 4

NipBytes == {0, 1, 2, 65, 255}

NipKeys == {<<RecipientSk, "pk_eph">>, <<RecipientSk, "pk_alice">>}

PaddedBlocks == UNION {[1..n -> NipBytes] : n \in 0..MaxPadded}

NipInit ==
    /\ PureInit
    /\ \E version \in {-1, 1, SupportedVersion}, key \in NipKeys, intact \in BOOLEAN,
          padded \in PaddedBlocks, ck \in NipKeys :
         call = [fn |-> "nip44_decrypt",
                 content |-> JB64(Blob(version, key, intact, padded)), ck |-> ck]

CallNip44Decrypt ==
    /\ pc = "call" /\ call.fn = "nip44_decrypt"
    /\ ret' = nip44_decrypt(call.content, call.ck)
    /\ pc' = "returned"
    /\ UNCHANGED <<exit_code, nsec, sk_hex, net_used, rpc, elapsed, idle, events, rend,
                   all_events, feedback_items, output, call>>

NipNext == CallNip44Decrypt

NipSpec == NipInit /\ [][NipNext]_vars

-----------------------------------------------------------------------------
(* Bech32 as BIP-173 defines it: what "the checksum validates" means        *)

RECURSIVE Xor(_, _)
Xor(a, b) ==
    IF a = 0 THEN b
    ELSE IF b = 0 THEN a
    ELSE (((a % 2) + (b % 2)) % 2) + (2 * Xor(a \div 2, b \div 2))

Generator == <<996825010, 642813549, 513874426, 1027748829, 705979059>>

GenTerm(top, i) == IF (top \div (2 ^ (i - 1))) % 2 = 1 THEN Generator[i] ELSE 0

PolymodStep(chk, v) ==
    LET top  == chk \div (2 ^ 25)
        base == Xor((chk % (2 ^ 25)) * 32, v)
    IN  Xor(Xor(Xor(Xor(Xor(base, GenTerm(top, 1)), GenTerm(top, 2)), GenTerm(top, 3)),
                GenTerm(top, 4)), GenTerm(top, 5))

\* the checksum register after values[lo..hi], starting from chk; the range
\* is halved so that the evaluation stays shallow
RECURSIVE PolymodRange(_, _, _, _)
PolymodRange(values, lo, hi, chk) ==
    IF chk < 0 \/ lo > hi THEN chk
    ELSE IF lo = hi THEN PolymodStep(chk, values[lo])
    ELSE PolymodRange(values, ((lo + hi) \div 2) + 1, hi,
                      PolymodRange(values, lo, (lo + hi) \div 2, chk))

Polymod(values) == PolymodRange(values, 1, Len(values), 1)

\* ord() of the characters the inputs are made of
Ord(c) ==
    IF IndexIn(LowerCase, c) > 0 THEN 96 + IndexIn(LowerCase, c)
    ELSE IF IndexIn(UpperCase, c) > 0 THEN 64 + IndexIn(UpperCase, c)
    ELSE 47 + IndexIn(Digits, c)

HrpExpand(hrp) ==
    [i \in 1..Len(hrp) |-> Ord(hrp[i]) \div 32] \o <<0>>
    \o [i \in 1..Len(hrp) |-> Ord(hrp[i]) % 32]

\* a well-formed encoded key with human-readable part tag
WellFormedKey(bech0, tag) ==
    LET bech == StrLower(bech0)
        pos  == RFind(bech, "1")
        tail == Slice(bech, pos + 1, Len(bech))
        data == [i \in 1..Len(tail) |-> AlphabetFind(tail[i])]
    IN  /\ bech0 = StrLower(bech0) \/ bech0 = StrUpper(bech0)
        /\ pos >= 1 /\ pos + 7 <= Len(bech)
        /\ Slice(bech, 0, pos) = tag
        /\ \A i \in 1..Len(data) : data[i] >= 0
        /\ Polymod(HrpExpand(tag) \o data) = 1

-----------------------------------------------------------------------------
(* Properties                                                              *)

Ids(evs) == {EventId(evs[i]) : i \in 1..Len(evs)}

NoRepeatedId(evs) ==
    \A i, j \in 1..Len(evs) : i # j => EventId(evs[i]) # EventId(evs[j])

\* fetch_gift_wraps has returned its list
GatherReturned ==
    pc \in {"decrypt", "crashed_decrypt", "digest", "crashed_digest", "emit", "done"}

Failed(r) == rpc[r] = "done" /\ rend[r] \in {"error", "timeout"}

\* C1: once fetch_gift_wraps has returned, its list holds every record
\* identifier that any endpoint's query returned, and holds none of them twice,
\* whatever the endpoints sent (the same event on several endpoints, or several
\* times in one stream).
C1_EachIdExactlyOnce ==
    GatherReturned =>
        /\ NoRepeatedId(all_events)
        /\ Ids(all_events) = UNION {Ids(events[r]) : r \in Relays}

\* C1's case: an id that one endpoint sent twice and another endpoint sent too.
C1_Witness ==
    /\ GatherReturned
    /\ \E r1, r2 \in Relays :
        /\ r1 # r2
        /\ Len(events[r1]) = 2
        /\ EventId(events[r1][1]) = EventId(events[r1][2])
        /\ EventId(events[r1][1]) \in Ids(events[r2])

\* C2: endpoint queries are failure-isolated: however an endpoint misbehaves
\* (connection error, malformed message, an EVENT whose payload is no
\* well-formed record, timeout), fetch_gift_wraps still returns, and what the
\* other endpoints returned is in its result.
C2_FailureIsolated ==
    /\ pc # "crashed_gather"
    /\ GatherReturned => \A r \in Relays : Ids(events[r]) \subseteq Ids(all_events)

\* the events of a batch that unwrap, in the batch's order
RECURSIVE Unwrapped(_, _)
Unwrapped(evs, sk) ==
    IF evs = <<>> THEN <<>>
    ELSE (IF decrypt_gift_wrap(Head(evs), sk).err = ""
          THEN <<Head(evs)>> ELSE <<>>) \o Unwrapped(Tail(evs), sk)

DecryptOver == pc \in {"crashed_decrypt", "digest", "crashed_digest", "emit", "done"}

\* C3: per-record failures never abort the run: whatever the batch,
\* fetch_feedback runs to completion and returns exactly the payloads of the
\* events that unwrap, in the batch's order.
C3_PartialFailureTolerated ==
    DecryptOver =>
        /\ pc # "crashed_decrypt"
        /\ feedback_items =
             [j \in 1..Len(Unwrapped(all_events, sk_hex)) |->
                decrypt_gift_wrap(Unwrapped(all_events, sk_hex)[j], sk_hex).feedback]

\* the Seal inside a gift wrap, as its sender wrote it
SealOf(ev) == json_loads(Slice(ev.v["content"].v.padded, 2, 3)).doc

\* C4: every record decrypt_gift_wrap returns, on the structured path and on the
\* free-text path, has _sender_pubkey equal to the public key in the Seal, never
\* the outer event's pubkey, and _received_at equal to the outer event's
\* created_at, also when the payload itself carries fields of those names.
C4_InjectedFields ==
    (pc \in {"digest", "emit", "done"}) =>
        \A j \in 1..Len(feedback_items) :
            LET ev == Unwrapped(all_events, sk_hex)[j]
            IN  /\ feedback_items[j]["_sender_pubkey"] = SealOf(ev).v["pubkey"]
                /\ feedback_items[j]["_sender_pubkey"] # ev.v["pubkey"]
                /\ "created_at" \in DOMAIN ev.v =>
                       feedback_items[j]["_received_at"] = ev.v["created_at"]

\* C4's case: a batch with a payload that names its own _sender_pubkey and
\* _received_at, and a free-text payload.
C4_Witness ==
    /\ pc = "digest"
    /\ Len(feedback_items) = 2
    /\ all_events[1] = WireEvents[2]
    /\ feedback_items[2]["type"] = JStr("unknown")

\* C5: every endpoint query terminates: a query in its receive loop leaves it
\* (on EOSE, on a timeout or on an error) whatever the endpoint sends and for
\* however long, and so the gather over all endpoints returns.
C5_QueriesTerminate ==
    <>(pc # "gather" /\ \A r \in Relays : rpc[r] = "done")

\* C5's case: an endpoint that kept sending until the per-endpoint timeout
\* ended the loop.
C5_Witness ==
    \E r \in Relays :
        /\ rpc[r] = "close" /\ rend[r] = "timeout"
        /\ elapsed[r] >= Timeout /\ idle[r] < RecvTimeout
        /\ Len(events[r]) = MaxEvents

\* C6, as claimed: an endpoint whose query ended by an error or by a timeout
\* contributes no events, even if it had delivered some before.
C6_FailedContributesNothing ==
    GatherReturned => \A r \in Relays : Failed(r) => events[r] = <<>>

\* C6, amended: an error or a timeout discards nothing: the query returns the
\* events it had received until then, and they are in the aggregator's result.
C6_FailedKeepsReceived ==
    [][/\ \A r \in Relays :
            (rpc[r] # "done" /\ rpc'[r] = "done" /\ rend'[r] \in {"error", "timeout"})
                => events'[r] = events[r]
       /\ (pc = "gather" /\ pc' = "decrypt")
            => \A r \in Relays : Ids(events[r]) \subseteq Ids(all_events')]_vars

\* C6's case: a query that failed after receiving events, which are in the result.
C6_Witness ==
    /\ GatherReturned
    /\ \E r \in Relays :
        /\ rend[r] = "error"
        /\ events[r] # <<>>
        /\ Ids(events[r]) \subseteq Ids(all_events)

\* C7: nip44_decrypt returns exactly the L bytes its length prefix announces and
\* fails when L does not fit the decrypted block.
C7_LengthChecked ==
    (pc = "returned" /\ call.fn = "nip44_decrypt" /\ ret.err = "") =>
        /\ Len(call.content.v.padded) >= 2
        /\ LengthPrefix(call.content.v.padded) <= Len(call.content.v.padded) - 2
        /\ Len(ret.text) = LengthPrefix(call.content.v.padded)

CodecTag == IF call.fn = "nsec_to_hex" THEN <<"n","s","e","c">> ELSE <<"n","p","u","b">>

\* C8: nsec_to_hex and npub_to_hex accept only well-formed encoded keys (right
\* tag, one case, valid separator, characters of the alphabet, valid
\* checksum), and what they accept decodes to 32 bytes.
C8_RejectsInvalidKeys ==
    (pc = "returned" /\ call.fn \in {"nsec_to_hex", "npub_to_hex"} /\ ret.err = "") =>
        /\ WellFormedKey(call.bech, CodecTag)
        /\ Len(ret.hex) = 2 * KeyBytes

\* C9: with records to summarize, an unavailable or failing collaborator is not
\* fatal: generate_digest returns the raw records and the run goes on.
C9_CollaboratorFailureNotFatal ==
    (output.items # <<>> /\ output.collaborator \in {"unavailable", "failed"}) =>
        /\ pc # "crashed_digest"
        /\ output.kind = "raw_fallback"

\* the configuration main() rejects: no key, or one the decoder refuses
\* what nsec_to_hex makes of each setting of SUPPORT_NSEC
DecodedSettings == [i \in 1..Len(NsecSettings) |-> nsec_to_hex(NsecSettings[i])]

DecodedNsec == DecodedSettings[CHOOSE i \in 1..Len(NsecSettings) : NsecSettings[i] = nsec]

BadKey == nsec = <<>> \/ DecodedNsec.err # ""

\* C10: with the secret key missing or refused by the decoder, main() exits with
\* status 1 and nothing ever touches the network; relay queries exist only
\* after the key was decoded.
C10_ConfigErrorsBeforeNetwork ==
    /\ BadKey => (pc \in {"start", "exited"} /\ ~net_used /\ rpc = IdleRelays)
    /\ pc = "exited" => (exit_code = 1 /\ ~net_used /\ rpc = IdleRelays)
    /\ (net_used \/ rpc # IdleRelays) => (~BadKey /\ sk_hex = DecodedNsec.hex)

\* C10's case: a key the decoder refused, and the process gone.
C10_Witness ==
    /\ pc = "exited"
    /\ nsec # <<>>
    /\ DecodedNsec.err # ""

=============================================================================
